---- MODULE Spec2Model ----
(***************************************************************************)
(* Model of src/main.py: the adaptive preprocessing pipeline               *)
(* (load_dicom_file, adaptive_preprocessing, process_file and the batch    *)
(* loop under __main__).                                                   *)
(*                                                                         *)
(* Numbers.  The program computes in float64; the model computes exactly   *)
(* where the value is rational and in fixed point, truncating, where it    *)
(* is not, with these units:                                               *)
(*   contrast          : hundredths, exact            (19.99 is 1999)      *)
(*   sharpness         : an exact mixed fraction whole + num / den, with   *)
(*                       the direction of the float64 rounding where the   *)
(*                       exact value is an integer (Real below)            *)
(*   np.std of a patch : the exact value cut after twelve decimals (a      *)
(*                       natural number beyond 32 bits, Big below); the    *)
(*                       frame shows it in millionths, truncated           *)
(*   noise_level       : 1/60000, the exact mean truncated (8.5 is         *)
(*                       510000), so that noise_level * 0.6 in thousandths *)
(*                       is its hundredth part                             *)
(*   clahe_clip        : 1/4000, exact                (1.0 is 4000)        *)
(*   denoise_strength  : thousandths, truncated       (5.0 is 5000)        *)
(*   strength, alpha, beta : tenths, exact            (1.7 is 17)          *)
(*   pixels            : integers 0..255                                   *)
(* so contrast / 40 is the contrast in hundredths read in units of 1/4000. *)
(* A truncated value is the truncation of the exact value, which the       *)
(* program holds as the float64 nearest to it.                             *)
(* Sums are kept within 32 bits: images of up to 45 x 45 pixels.           *)
(*                                                                         *)
(* Images.  A decoded image is a record [h, w, ndim, kind, ops]: its       *)
(* shape, the pattern of its pixels (Pattern) and the calls applied to it  *)
(* so far.  The pixels are known up to the range clamp; the outputs of the *)
(* filter primitives (CLAHE, bilateral, non-local means, Gaussian blur)    *)
(* are known only by the calls that made them.                             *)
(***************************************************************************)
EXTENDS Integers, Sequences, FiniteSets, TLC

\* Bounds of the model.
NumFiles == 2
MaxDim == 41

\* main.py:47
patch_size == 40

Files == 1..NumFiles

----------------------------------------------------------------------------
(* Images and their pixels                                                 *)

\* Heights and widths tried: two below patch_size, patch_size itself, and
\* the ones above it up to MaxDim (odd and even).
SmallDims == {patch_size \div 2, patch_size - 1}
Dims == SmallDims \cup (patch_size..MaxDim)

\* The shapes tried: equal sides, or one side exactly patch_size.
Shapes == {s \in Dims \X Dims : s[1] = s[2] \/ s[1] = patch_size \/ s[2] = patch_size}

\* The pixel patterns tried (Pattern below).  "flat" is 128 everywhere and
\* "blank" is 0 everywhere; the others hold both 0 and 255.
Kinds == {"flat", "blank", "cross", "spot", "ramp"}

\* The images adaptive_preprocessing is tried on: 2-dimensional ones of
\* every shape, and 3-channel ones (the same value in the three channels)
\* of the square shapes.
Images == {im \in [h : Dims, w : Dims, ndim : {2, 3}, kind : Kinds, ops : {<< >>}] :
             /\ <<im.h, im.w>> \in Shapes
             /\ im.ndim = 3 => im.h = im.w}

\* What load_dicom_file returns on success in the batch runs.  main.py:26-27
\* scales the intensities to 0..255, so a decoded image holds a 0 and a 255,
\* and a constant one comes out constant (all 0 on the usual builds).
BatchImages == {im \in Images :
                  \/ im.h = patch_size /\ im.w = patch_size /\ im.ndim = 2
                       /\ im.kind \in {"blank", "spot"}
                  \/ im.h = MaxDim /\ im.w = MaxDim /\ im.ndim = 3
                       /\ im.kind = "cross"
                  \/ im.h = patch_size - 1 /\ im.w = patch_size /\ im.ndim = 2
                       /\ im.kind = "ramp"}

NoImage == [tag |-> "None"]

IsImage(x) == "kind" \in DOMAIN x

\* The stored intensity at row r, column c.
Pattern(im, r, c) ==
    CASE im.kind = "flat"  -> 128
      [] im.kind = "blank" -> 0
      [] im.kind = "cross" ->
           IF \/ r \in {im.h \div 2 - 1, im.h \div 2}
              \/ c \in {im.w \div 2 - 1, im.w \div 2}
           THEN 255 ELSE 0
      [] im.kind = "spot"  ->
           IF /\ r \in {im.h \div 2 - 1, im.h \div 2}
              /\ c \in {im.w \div 2 - 1, im.w \div 2}
           THEN 255 ELSE 0
      [] im.kind = "ramp"  -> (255 * c) \div (im.w - 1)

\* cv2.cvtColor(img, cv2.COLOR_BGR2GRAY) on 8-bit pixels (main.py:37):
\* fixed-point luminance, rounded.
Bgr2Gray(b, g, r) == (b * 3735 + g * 19235 + r * 9798 + 16384) \div 32768

\* np.clip(x, lo, hi)
NpClip(x, lo, hi) == IF x < lo THEN lo ELSE IF x > hi THEN hi ELSE x

HasOp(im, fn) == \E k \in 1..Len(im.ops) : im.ops[k].fn = fn

\* The pixel of a 2-dimensional image that has been through cvtColor
\* and/or the range clamp only.
Pix(im, r, c) ==
    LET p == Pattern(im, r, c)
        v == IF HasOp(im, "cvtColor") THEN Bgr2Gray(p, p, p) ELSE p
    IN  IF HasOp(im, "clip") THEN NpClip(v, 0, 255) ELSE v

\* An image after one more call.
Apply(im, op) == [im EXCEPT !.ops = Append(@, op)]

----------------------------------------------------------------------------
(* Python slicing                                                          *)

\* One bound of a slice of a length-n axis (a[k:...]): a negative bound
\* counts from the end, and the result is cut to 0..n.
SliceBound(k, n) ==
    LET j == IF k < 0 THEN k + n ELSE k
    IN  IF j < 0 THEN 0 ELSE IF j > n THEN n ELSE j

\* The index range a[lo:hi] reads: [from, to) with to >= from.
Slice(lo, hi, n) ==
    LET a == SliceBound(lo, n)
        b == SliceBound(hi, n)
    IN  [from |-> a, to |-> IF b < a THEN a ELSE b]

----------------------------------------------------------------------------
(* Metric estimation (main.py:42-58)                                       *)

\* floor(sqrt(x)) by bisection on lo..hi, where lo*lo <= x < (hi+1)*(hi+1).
RECURSIVE Isqrt(_, _, _)
Isqrt(x, lo, hi) ==
    IF lo >= hi THEN lo
    ELSE LET mid == (lo + hi + 1) \div 2
         IN  IF mid * mid <= x THEN Isqrt(x, mid, hi) ELSE Isqrt(x, lo, mid - 1)

\* The array `img` of main.py:39-58: rows 0..h-1 of columns 0..w-1.
Array(im) == [r \in 0..(im.h - 1) |-> [c \in 0..(im.w - 1) |-> Pix(im, r, c)]]

Height(a) == Cardinality(DOMAIN a)
Width(a) == Cardinality(DOMAIN a[0])

\* The number of pixels of value at most v.
RECURSIVE CountLE(_, _, _)
CountLE(a, v, r) ==
    IF r >= Height(a) THEN 0
    ELSE Cardinality({c \in DOMAIN a[r] : a[r][c] <= v}) + CountLE(a, v, r + 1)

\* The k-th smallest pixel, k counted from 0 (sorted(img.flat)[k]), known
\* to lie in lo..hi.
RECURSIVE SortedAt(_, _, _, _)
SortedAt(a, k, lo, hi) ==
    IF lo >= hi THEN lo
    ELSE LET mid == (lo + hi) \div 2
         IN  IF CountLE(a, mid, 0) > k THEN SortedAt(a, k, lo, mid)
             ELSE SortedAt(a, k, mid + 1, hi)

\* np.percentile(img, q) in hundredths: linear interpolation between the
\* two order statistics around the position q/100 * (n - 1).
Percentile(a, q) ==
    LET n    == Height(a) * Width(a)
        pos  == q * (n - 1)
        k    == pos \div 100
        frac == pos % 100
        x    == SortedAt(a, k, 0, 255)
        y    == IF frac = 0 THEN x ELSE SortedAt(a, k + 1, x, 255)
    IN  x * 100 + (y - x) * frac

\* main.py:42
Contrast(a) == Percentile(a, 99) - Percentile(a, 1)

\* cv2's default border (BORDER_REFLECT_101): index k of an axis of length n.
Reflect101(k, n) ==
    IF n = 1 THEN 0 ELSE IF k < 0 THEN -k ELSE IF k >= n THEN 2 * n - 2 - k ELSE k

\* cv2.Laplacian(img, cv2.CV_64F) at (r, c): aperture 1, the kernel
\* [0 1 0; 1 -4 1; 0 1 0].
Laplacian(a, r, c) ==
    LET h == Height(a)
        w == Width(a)
    IN    a[Reflect101(r - 1, h)][c] + a[Reflect101(r + 1, h)][c]
        + a[r][Reflect101(c - 1, w)] + a[r][Reflect101(c + 1, w)]
        - 4 * a[r][c]

\* Sum over the columns from c on of row r of Laplacian^p (p = 1 or 2).
RECURSIVE LapRow(_, _, _, _)
LapRow(a, r, c, p) ==
    IF c >= Width(a) THEN 0
    ELSE LET l == Laplacian(a, r, c)
         IN  (IF p = 1 THEN l ELSE l * l) + LapRow(a, r, c + 1, p)

RECURSIVE LapSum(_, _, _)
LapSum(a, r, p) ==
    IF r >= Height(a) THEN 0 ELSE LapRow(a, r, 0, p) + LapSum(a, r + 1, p)

\* A real number: whole + num / den with 0 <= num < den, and ulp, the side
\* on which the float64 that stands for it lies (-1 below, 0 on it, 1
\* above).  ulp matters only to a comparison with the number itself.
Real(whole, num, den, ulp) == [whole |-> whole, num |-> num, den |-> den, ulp |-> ulp]

\* x < k and x > k for an integer k.
Less(x, k) == x.whole < k \/ (x.whole = k /\ x.num = 0 /\ x.ulp < 0)
Greater(x, k) == x.whole > k \/ (x.whole = k /\ (x.num > 0 \/ x.ulp > 0))

\* The variance of n numbers of sum s1 and sum of squares s2,
\* s2 / n - (s1 / n)^2, exactly: whole + num / den with den = n * n.
\* (s1 = A n + B and s2 = C n + E; 2 A B = F n + G.)
Variance(s1, s2, n) ==
    LET A == s1 \div n
        B == s1 % n
        C == s2 \div n
        E == s2 % n
        F == (2 * A * B) \div n
        G == (2 * A * B) % n
        N == (E - G) * n - B * B
    IN  [whole |-> C - A * A - F + (N \div (n * n)), num |-> N % (n * n), den |-> n * n]

RECURSIVE Gcd(_, _)
Gcd(x, y) == IF y = 0 THEN x ELSE Gcd(y, x % y)

RECURSIVE IsPowerOfTwo(_)
IsPowerOfTwo(x) == x = 1 \/ (x > 1 /\ x % 2 = 0 /\ IsPowerOfTwo(x \div 2))

\* s1 / n is a float64: then .var() subtracts, squares and adds without
\* rounding, and its last division rounds an integer to itself.
MeanIsExact(s1, n) ==
    LET m == IF s1 < 0 THEN -s1 ELSE s1
    IN  IsPowerOfTwo(n \div Gcd(n, m))

\* main.py:43: cv2.Laplacian(img, cv2.CV_64F).var(), the variance of the
\* Laplacian: the values the float64 computation can give.  Its rounding
\* error is far below 1 / den, so it shows only where the exact variance is
\* an integer and the mean is rounded: there the result may lie on either
\* side.
Sharpness(a) ==
    LET n  == Height(a) * Width(a)
        s1 == LapSum(a, 0, 1)
        v  == Variance(s1, LapSum(a, 0, 2), n)
    IN  {Real(v.whole, v.num, v.den, u) :
           u \in IF v.num = 0 /\ ~MeanIsExact(s1, n) THEN {-1, 0, 1} ELSE {0}}

\* PatchRequests with the middle patches starting at the middle instead of
\* being centred on it.
PatchRequestsUncentred(h, w) ==
    LET ps == patch_size
        mr == h \div 2
        mc == w \div 2
    IN  << [r0 |-> 0,      r1 |-> ps,      c0 |-> 0,      c1 |-> ps],
           [r0 |-> 0,      r1 |-> ps,      c0 |-> w - ps, c1 |-> w],
           [r0 |-> h - ps, r1 |-> h,       c0 |-> 0,      c1 |-> ps],
           [r0 |-> h - ps, r1 |-> h,       c0 |-> w - ps, c1 |-> w],
           [r0 |-> mr,     r1 |-> mr + ps, c0 |-> 0,      c1 |-> ps],
           [r0 |-> mr,     r1 |-> mr + ps, c0 |-> w - ps, c1 |-> w],
           [r0 |-> 0,      r1 |-> ps,      c0 |-> mc,     c1 |-> mc + ps],
           [r0 |-> h - ps, r1 |-> h,       c0 |-> mc,     c1 |-> mc + ps] >>

\* main.py:48-57: the eight slices as written, rows r0:r1 and columns c0:c1.
PatchRequests(h, w) ==
    LET ps == patch_size
        mr == h \div 2
        mc == w \div 2
        hp == ps \div 2
    IN  << [r0 |-> 0,       r1 |-> ps,      c0 |-> 0,       c1 |-> ps],
           [r0 |-> 0,       r1 |-> ps,      c0 |-> w - ps,  c1 |-> w],
           [r0 |-> h - ps,  r1 |-> h,       c0 |-> 0,       c1 |-> ps],
           [r0 |-> h - ps,  r1 |-> h,       c0 |-> w - ps,  c1 |-> w],
           [r0 |-> mr - hp, r1 |-> mr + hp, c0 |-> 0,       c1 |-> ps],
           [r0 |-> mr - hp, r1 |-> mr + hp, c0 |-> w - ps,  c1 |-> w],
           [r0 |-> 0,       r1 |-> ps,      c0 |-> mc - hp, c1 |-> mc + hp],
           [r0 |-> h - ps,  r1 |-> h,       c0 |-> mc - hp, c1 |-> mc + hp] >>

\* The region of an h x w array a request reads.
PatchRegion(q, h, w) ==
    [rows |-> Slice(q.r0, q.r1, h), cols |-> Slice(q.c0, q.c1, w)]

Patches(h, w) ==
    LET qs == PatchRequests(h, w)
    IN  [k \in 1..Len(qs) |-> PatchRegion(qs[k], h, w)]

\* Sum of pixel^p over columns c..(c1-1) of row r.
RECURSIVE PixRow(_, _, _, _, _)
PixRow(a, r, c, c1, p) ==
    IF c >= c1 THEN 0
    ELSE (IF p = 1 THEN a[r][c] ELSE a[r][c] * a[r][c]) + PixRow(a, r, c + 1, c1, p)

RECURSIVE PixSum(_, _, _, _)
PixSum(a, reg, r, p) ==
    IF r >= reg.rows.to THEN 0
    ELSE PixRow(a, r, reg.cols.from, reg.cols.to, p) + PixSum(a, reg, r + 1, p)

\* Natural numbers beyond 32 bits: the sequence of the number's digits in
\* base 10000, the lowest first and the highest not 0 (0 is << >>).
RECURSIVE Big(_)
Big(n) == IF n = 0 THEN << >> ELSE <<n % 10000>> \o Big(n \div 10000)

\* The number of a Big below 2^31.
RECURSIVE Small32(_)
Small32(x) == IF x = << >> THEN 0 ELSE Head(x) + 10000 * Small32(Tail(x))

\* x * k + c for a Big x and naturals k in 1..200000 and c <= 200000.
RECURSIVE MulAdd(_, _, _)
MulAdd(x, k, c) ==
    IF x = << >> THEN Big(c)
    ELSE LET t == Head(x) * k + c
         IN  <<t % 10000>> \o MulAdd(Tail(x), k, t \div 10000)

RECURSIVE Trim(_)
Trim(x) ==
    IF x = << >> \/ x[Len(x)] # 0 THEN x ELSE Trim(SubSeq(x, 1, Len(x) - 1))

\* x + y + carry for Bigs x and y.
RECURSIVE BigSum(_, _, _)
BigSum(x, y, carry) ==
    IF x = << >> THEN MulAdd(y, 1, carry)
    ELSE IF y = << >> THEN MulAdd(x, 1, carry)
    ELSE LET t == Head(x) + Head(y) + carry
         IN  <<t % 10000>> \o BigSum(Tail(x), Tail(y), t \div 10000)

\* The digits of x - y - borrow for Bigs x >= y + borrow.
RECURSIVE BigDigitsLess(_, _, _)
BigDigitsLess(x, y, borrow) ==
    IF x = << >> THEN << >>
    ELSE LET t == Head(x) - (IF y = << >> THEN 0 ELSE Head(y)) - borrow
         IN  <<(t + 10000) % 10000>>
                \o BigDigitsLess(Tail(x), IF y = << >> THEN << >> ELSE Tail(y),
                                 IF t < 0 THEN 1 ELSE 0)

BigLess(x, y) == Trim(BigDigitsLess(x, y, 0))

\* x <= y for Bigs of the same length, looking at digits i and below.
RECURSIVE BigLeqFrom(_, _, _)
BigLeqFrom(x, y, i) ==
    IF i = 0 THEN TRUE
    ELSE IF x[i] # y[i] THEN x[i] < y[i]
    ELSE BigLeqFrom(x, y, i - 1)

BigLeq(x, y) == IF Len(x) # Len(y) THEN Len(x) < Len(y) ELSE BigLeqFrom(x, y, Len(x))

\* The digits i and below of (rem * 10000^i + x's digits i and below) \div d,
\* for d in 1..200000 and rem < d.
RECURSIVE BigDivFrom(_, _, _, _)
BigDivFrom(x, d, i, rem) ==
    IF i = 0 THEN << >>
    ELSE LET t == rem * 10000 + x[i]
         IN  Append(BigDivFrom(x, d, i - 1, t % d), t \div d)

\* x \div d for a Big x and d in 1..200000.
BigDiv(x, d) == Trim(BigDivFrom(x, d, Len(x), 0))

\* The next decimal of a square root: r is the root so far and c what is
\* left of the radicand under it with the radicand's next two decimals
\* appended.  The largest b <= 9 with (20 r + b) b <= c, tried from b down.
RECURSIVE RootDecimal(_, _, _)
RootDecimal(r, c, b) ==
    IF b = 0 THEN 0
    ELSE IF BigLeq(MulAdd(MulAdd(r, 20, b), b, 0), c) THEN b
    ELSE RootDecimal(r, c, b - 1)

\* The one element of a set of one element.
Only(S) == CHOOSE e \in S : TRUE

\* One more decimal of a square root.  In at: r is the root so far, rem
\* what is left of the radicand under it, and num / den the fraction of
\* the radicand still to come.
RootStep(at) ==
    LET c == MulAdd(at.rem, 100, (at.num * 100) \div at.den)
        b == RootDecimal(at.r, c, 9)
    IN  [r   |-> MulAdd(at.r, 10, b),
         rem |-> IF b = 0 THEN c ELSE BigLess(c, MulAdd(MulAdd(at.r, 20, b), b, 0)),
         num |-> (at.num * 100) % at.den,
         den |-> at.den]

\* k more decimals of a square root: the root cut there, and whether that
\* is the root exactly.
RECURSIVE RootDecimals(_, _)
RootDecimals(at, k) ==
    IF k = 0 THEN [root |-> at.r, exact |-> at.rem = << >> /\ at.num = 0]
    ELSE Only({RootDecimals(next, k - 1) : next \in {RootStep(at)}})

\* np.std(p) of a region: the square root of the exact variance, cut after
\* twelve decimals (in units of 10^-12), and whether that is its exact
\* value.  (No region is empty when h, w >= 1.)
NpStd(a, reg) ==
    LET m == (reg.rows.to - reg.rows.from) * (reg.cols.to - reg.cols.from)
        Root(v, r0) ==
            RootDecimals([r |-> Big(r0), rem |-> Big(v.whole - r0 * r0),
                          num |-> v.num, den |-> v.den], 12)
    IN  Only({Root(v, Isqrt(v.whole, 0, 128)) :
                v \in {Variance(PixSum(a, reg, reg.rows.from, 1),
                                PixSum(a, reg, reg.rows.from, 2), m)}})

\* A standard deviation in millionths, truncated.
Millionths(std) == Small32(BigDiv(BigDiv(std.root, 1000), 1000))

\* main.py:58: the patches' standard deviations.
PatchStds(a) ==
    LET ps == Patches(Height(a), Width(a))
    IN  [k \in 1..Len(ps) |-> NpStd(a, ps[k])]

\* The sum of the roots of s[i..], and how many of them are cut short.
RECURSIVE SumStds(_, _)
SumStds(s, i) ==
    IF i > Len(s) THEN [root |-> << >>, short |-> 0]
    ELSE LET t == SumStds(s, i + 1)
         IN  [root  |-> BigSum(s[i].root, t.root, 0),
              short |-> t.short + (IF s[i].exact THEN 0 ELSE 1)]

\* main.py:58: np.mean of the deviations, in units of 1/60000, truncated.
\* With sum the sum of the deviations in units of 10^-12, that is
\* 6 * sum \div (10^8 * Len(s)).  Each deviation that is cut short lies
\* less than one unit of 10^-12 above its cut, and the mean is taken of the
\* deviations as they are: where the cuts leave its truncation open
\* both values are possible.
NpMean(s) ==
    LET t == SumStds(s, 1)
        Units(sum) ==
            Small32(BigDiv(BigDiv(BigDiv(MulAdd(sum, 6, 0), 10000), 10000), Len(s)))
    IN  Units(t.root) .. Units(MulAdd(t.root, 1, t.short))

\* main.py:42-58: what the metric estimation binds for an image (a is its
\* array), one record for each value the sharpness and the noise level can
\* come out as.
Estimates(img) ==
    UNION {LET stds == PatchStds(a)
           IN  {[contrast    |-> Contrast(a),
                 sharpness   |-> s,
                 h           |-> Height(a),
                 w           |-> Width(a),
                 patches     |-> Patches(Height(a), Width(a)),
                 stds        |-> [k \in 1..Len(stds) |-> Millionths(stds[k])],
                 noise_level |-> n] : s \in Sharpness(a), n \in NpMean(stds)} :
           a \in {Array(img)}}

----------------------------------------------------------------------------
(* Parameter selection (main.py:61, 69, 78-85, 88)                         *)

\* ClaheClip without the ceiling.
ClaheClipNoCeiling(contrast) == IF contrast < 1 * 4000 THEN 1 * 4000 ELSE contrast

\* main.py:61: np.clip(contrast / 40, 1.0, 3.0).  The contrast is in
\* hundredths and the result in units of 1/4000, so contrast / 40 is the
\* same integer.
ClaheClip(contrast) == NpClip(contrast, 1 * 4000, 3 * 4000)

\* DenoiseStrength without the clamp.
DenoiseStrengthUnclamped(noise_level) == noise_level \div 100

\* main.py:69: np.clip(noise_level * 0.6, 5, 15).  The noise is in units
\* of 1/60000, so noise_level * 0.6 is noise_level hundred-
\* thousandths, and the result is cut to thousandths.
DenoiseStrength(noise_level) == NpClip(noise_level \div 100, 5 * 1000, 15 * 1000)

\* Strength with the last test written >= 300.
StrengthInclusive300(sharpness) ==
    IF Less(sharpness, 20) THEN 20
    ELSE IF Less(sharpness, 80) THEN 17
    ELSE IF ~Less(sharpness, 300) THEN 7
    ELSE 11

\* main.py:78-85, in tenths.
Strength(sharpness) ==
    IF Less(sharpness, 20) THEN 20
    ELSE IF Less(sharpness, 80) THEN 17
    ELSE IF Greater(sharpness, 300) THEN 7
    ELSE 11

\* main.py:88: the arguments alpha, beta, gamma of cv2.addWeighted, alpha
\* and beta in tenths.
Alpha(strength) == strength
\* Beta without the sign change.
BetaUnnegated(strength) == strength - 10
Beta(strength) == -(strength - 10)
Gamma == 0

\* saturate_cast<uchar>
Saturate(x) == NpClip(x, 0, 255)

\* cv2.addWeighted on one 8-bit pixel: src1 * alpha + src2 * beta + gamma,
\* rounded to the nearest integer and saturated.  The sum is formed in
\* single precision, where 1.7, 1.1 and 0.7 are not exact: an exact half
\* may come out on either side, so both neighbours are outcomes.
AddWeighted(src1, alpha, src2, beta, gamma) ==
    LET t    == src1 * alpha + src2 * beta + gamma * 10
        down == t \div 10
    IN  IF t % 10 = 5 THEN {Saturate(down), Saturate(down + 1)}
        ELSE IF t % 10 < 5 THEN {Saturate(down)}
        ELSE {Saturate(down + 1)}

\* The pixel values tried for a pixel of the denoised image and of its blur.
PixelSamples == {0, 100, 123, 128, 255}

----------------------------------------------------------------------------
(* The filter chain's calls (main.py:37-88)                                *)

cvtColor(img) == [Apply(img, [fn |-> "cvtColor"]) EXCEPT !.ndim = 2]

clip(img) == Apply(img, [fn |-> "clip"])

CLAHE(img, clahe_clip) ==
    Apply(img, [fn |-> "CLAHE", clipLimit |-> clahe_clip, tileGridSize |-> <<8, 8>>])

bilateralFilter(img_clahe) ==
    Apply(img_clahe, [fn |-> "bilateralFilter", d |-> 9, sigmaColor |-> 75,
                      sigmaSpace |-> 75])

fastNlMeansDenoising(img_bilateral, denoise_strength) ==
    Apply(img_bilateral, [fn |-> "fastNlMeansDenoising", h |-> denoise_strength,
                          templateWindowSize |-> 7, searchWindowSize |-> 21])

\* sigma in tenths
GaussianBlur(img_denoised) ==
    Apply(img_denoised, [fn |-> "GaussianBlur", ksize |-> <<5, 5>>, sigmaX |-> 12])

addWeighted(img_denoised, alpha, gaussian, beta, gamma) ==
    Apply(img_denoised, [fn |-> "addWeighted", alpha |-> alpha, src2 |-> gaussian.ops,
                         beta |-> beta, gamma |-> gamma])

\* Estimates for the images of the batch runs as they are at main.py:42,
\* computed once.
BatchEstimates ==
    [img \in {clip(IF im.ndim = 3 THEN cvtColor(im) ELSE im) : im \in BatchImages} |->
        Estimates(img)]

EstimatesOf(img) ==
    IF img \in DOMAIN BatchEstimates THEN BatchEstimates[img] ELSE Estimates(img)

\* The names of the calls an image has been through.
OpNames(im) == [k \in 1..Len(im.ops) |-> im.ops[k].fn]

----------------------------------------------------------------------------
(* State                                                                   *)

VARIABLES
    pc,           \* where control is
    stdout,       \* the encoding of sys.stdout
    sample_files, \* __main__: sample_files, the list the loop goes through
    file,         \* __main__: the index in sample_files of the loop's file
    log,          \* what has been printed: a sequence of [file, msg]
    outputs,      \* the _processed.png files there are: for each path, the
                  \* file whose image it holds
    ret,          \* how process_file was left for each file ("NotCalled" before)
    loaded,       \* process_file: img, what load_dicom_file returned
    result,       \* process_file: result, what adaptive_preprocessing returned
    frame,        \* adaptive_preprocessing: its local variables bound so far
    calls         \* the filter-chain calls completed for the image in hand:
                  \* a sequence of [stage, input, output]

vars == <<pc, stdout, sample_files, file, log, outputs, ret, loaded, result, frame, calls>>

NoFrame == << >>

Bound(name) == name \in DOMAIN frame

Say(msg) == Append(log, [file |-> file, msg |-> msg])

Call(stage, input, output) ==
    Append(calls, [stage |-> stage, input |-> input, output |-> output])

\* The positions inside the try block of adaptive_preprocessing.
TryPcs == {"gray", "clamp", "metrics", "clahe", "bilateral", "denoise", "sharpen"}

\* The encodings sys.stdout is tried with: one that has every character
\* that is not a lone surrogate, and one that has not (ascii; cp1252 and
\* the like lack the marks of main.py:111 and 128 too).
Encodings == {"utf-8", "ascii"}

\* print can write the marks of main.py:111 and 128 (U+2705, U+26A0 U+FE0F).
HasMarks(encoding) == encoding = "utf-8"

\* The lists os.listdir and the filter of main.py:118-119 can give, of up
\* to NumFiles files.  Of a file's name only its root matters, the path
\* without the extension (main.py:108): a.dcm, a.rvg and a.DCM have one
\* root.  A root is named by the first file of the list that has it.
FileLists ==
    {l \in UNION {[1..n -> [root : Files]] : n \in 0..NumFiles} :
        \A f \in DOMAIN l : l[f].root <= f /\ l[l[f].root].root = l[f].root}

\* main.py:108, up to the suffix "_processed.png".
OutPath(f) == sample_files[f].root

\* cv2.imwrite(out_path, result) has written the file.
Written(f) == (OutPath(f) :> f) @@ outputs

----------------------------------------------------------------------------
(* __main__ (main.py:115-128) and process_file (main.py:96-113)            *)

Init ==
    /\ pc = "list"
    /\ stdout \in Encodings
    /\ sample_files = << >>
    /\ file = 1
    /\ log = << >>
    /\ outputs = << >>
    /\ ret = [f \in Files |-> "NotCalled"]
    /\ loaded = NoImage
    /\ result = NoImage
    /\ frame = NoFrame
    /\ calls = << >>

\* main.py:118-119: the directory is listed.
ListOk ==
    /\ pc = "list"
    /\ sample_files' \in FileLists
    /\ pc' = "main"
    /\ UNCHANGED <<stdout, file, log, outputs, ret, loaded, result, frame, calls>>

\* main.py:120-122: os.listdir raises (the directory of main.py:116 does
\* not exist): the failure is printed and the list is empty.
ListFails ==
    /\ pc = "list"
    /\ log' = Append(log, [file |-> 0, msg |-> "Failed to list directory"])
    /\ sample_files' = << >>
    /\ pc' = "main"
    /\ UNCHANGED <<stdout, file, outputs, ret, loaded, result, frame, calls>>

\* process_file returns (always None): back to the loop, next file.
ReturnFromProcessFile ==
    /\ ret' = [ret EXCEPT ![file] = "None"]
    /\ file' = file + 1
    /\ pc' = "main"
    /\ loaded' = NoImage
    /\ result' = NoImage
    /\ frame' = NoFrame

\* process_file is left by an exception nothing catches: the loop and the
\* program end.
RaiseFromProcessFile ==
    /\ ret' = [ret EXCEPT ![file] = "Raised"]
    /\ pc' = "uncaught"
    /\ UNCHANGED <<file, loaded, result, frame>>

\* main.py:124-126, 98: the file exists; process_file is called and
\* announces it.
CallProcessFile ==
    /\ pc = "main"
    /\ file <= Len(sample_files)
    /\ log' = Say("Processing")
    /\ pc' = "load"
    /\ calls' = << >>
    /\ UNCHANGED <<stdout, sample_files, file, outputs, ret, loaded, result, frame>>

\* main.py:124-126, 98: the file exists and stdout cannot encode its name
\* (a name that is not UTF-8, a name that is not ASCII on an ascii stdout):
\* print raises UnicodeEncodeError outside every try.
CallProcessFilePrintRaises ==
    /\ pc = "main"
    /\ file <= Len(sample_files)
    /\ RaiseFromProcessFile
    /\ UNCHANGED <<stdout, sample_files, log, outputs, calls>>

\* main.py:127-128: os.path.exists(file) is false (a dangling link, a file
\* removed since the listing), and stdout encodes the mark and the name.
FileNotFound ==
    /\ pc = "main"
    /\ file <= Len(sample_files)
    /\ HasMarks(stdout)
    /\ log' = Say("File not found")
    /\ file' = file + 1
    /\ UNCHANGED <<pc, stdout, sample_files, outputs, ret, loaded, result, frame, calls>>

\* main.py:127-128: os.path.exists(file) is false and stdout cannot encode
\* the mark or the name: print raises UnicodeEncodeError outside every try.
FileNotFoundPrintRaises ==
    /\ pc = "main"
    /\ file <= Len(sample_files)
    /\ pc' = "uncaught"
    /\ UNCHANGED <<stdout, sample_files, file, log, outputs, ret, loaded, result, frame,
                   calls>>

\* main.py:99, 12-27: load_dicom_file returns an 8-bit image.
LoadOk ==
    /\ pc = "load"
    /\ \E im \in BatchImages : loaded' = im
    /\ pc' = "call"
    /\ UNCHANGED <<stdout, sample_files, file, log, outputs, ret, result, frame, calls>>

\* main.py:99-101, 29-31: load_dicom_file catches an exception, prints it
\* and returns None; process_file returns.
LoadFails ==
    /\ pc = "load"
    /\ log' = Say("Error loading")
    /\ ReturnFromProcessFile
    /\ UNCHANGED <<stdout, sample_files, outputs, calls>>

\* main.py:29-30: load_dicom_file catches an exception whose text stdout
\* cannot encode (pydicom's ValueError quotes the value it could not
\* convert, bytes of the file read as Latin-1): print raises inside the
\* handler and nothing catches it.
LoadFailsPrintRaises ==
    /\ pc = "load"
    /\ stdout # "utf-8"
    /\ RaiseFromProcessFile
    /\ UNCHANGED <<stdout, sample_files, log, outputs, calls>>

\* main.py:103: adaptive_preprocessing(img) is entered.
CallPreprocessing ==
    /\ pc = "call"
    /\ frame' = [img |-> loaded]
    /\ pc' = "gray"
    /\ UNCHANGED <<stdout, sample_files, file, log, outputs, ret, loaded, result, calls>>

\* main.py:104-105
ResultIsNone ==
    /\ pc = "result"
    /\ ~IsImage(result)
    /\ ReturnFromProcessFile
    /\ UNCHANGED <<stdout, sample_files, log, outputs, calls>>

\* main.py:108-111: cv2.imwrite writes the file, over the one that was at
\* out_path if there was one, and the success is printed.
SaveOk ==
    /\ pc = "result"
    /\ IsImage(result)
    /\ HasMarks(stdout)
    /\ outputs' = Written(file)
    /\ log' = Say("Saved processed image")
    /\ ReturnFromProcessFile
    /\ UNCHANGED <<stdout, sample_files, calls>>

\* main.py:108-111: cv2.imwrite cannot write the file and returns False
\* (an unwritable directory); the return value is not looked at.
SaveReturnsFalse ==
    /\ pc = "result"
    /\ IsImage(result)
    /\ HasMarks(stdout)
    /\ log' = Say("Saved processed image")
    /\ ReturnFromProcessFile
    /\ UNCHANGED <<stdout, sample_files, outputs, calls>>

\* main.py:108-113: cv2.imwrite writes the file and the print of line 111,
\* inside the try, raises UnicodeEncodeError (stdout cannot encode the
\* mark): the except clause reports a failure to save.
SavedPrintRaises ==
    /\ pc = "result"
    /\ IsImage(result)
    /\ ~HasMarks(stdout)
    /\ outputs' = Written(file)
    /\ log' = Say("Could not save processed image")
    /\ ReturnFromProcessFile
    /\ UNCHANGED <<stdout, sample_files, calls>>

\* main.py:108-113: nothing is written and the except clause is reached:
\* cv2.imwrite raises, or it returns False and the print of line 111
\* raises.
SaveRaises ==
    /\ pc = "result"
    /\ IsImage(result)
    /\ log' = Say("Could not save processed image")
    /\ ReturnFromProcessFile
    /\ UNCHANGED <<stdout, sample_files, outputs, calls>>

\* main.py:124: the loop is over.
Finish ==
    /\ pc = "main"
    /\ file > Len(sample_files)
    /\ pc' = "done"
    /\ UNCHANGED <<stdout, sample_files, file, log, outputs, ret, loaded, result, frame,
                   calls>>

----------------------------------------------------------------------------
(* adaptive_preprocessing (main.py:33-94)                                  *)

Rest == <<stdout, sample_files, file, log, outputs, ret, loaded, result>>

\* main.py:36-37
ToGray ==
    /\ pc = "gray"
    /\ IF frame.img.ndim = 3
       THEN /\ frame' = [frame EXCEPT !.img = cvtColor(frame.img)]
            /\ calls' = Call("cvtColor", frame.img, cvtColor(frame.img))
       ELSE UNCHANGED <<frame, calls>>
    /\ pc' = "clamp"
    /\ UNCHANGED Rest

\* main.py:39
Clamp ==
    /\ pc = "clamp"
    /\ frame' = [frame EXCEPT !.img = clip(frame.img)]
    /\ calls' = Call("clip", frame.img, clip(frame.img))
    /\ pc' = "metrics"
    /\ UNCHANGED Rest

\* main.py:42-58
Estimate ==
    /\ pc = "metrics"
    /\ \E e \in EstimatesOf(frame.img) : frame' = frame @@ e
    /\ pc' = "clahe"
    /\ UNCHANGED <<calls, Rest>>

\* main.py:61-63
Clahe ==
    /\ pc = "clahe"
    /\ LET clahe_clip == ClaheClip(frame.contrast)
           img_clahe  == CLAHE(frame.img, clahe_clip)
       IN  /\ frame' = frame @@ [clahe_clip |-> clahe_clip, img_clahe |-> img_clahe]
           /\ calls' = Call("CLAHE", frame.img, img_clahe)
    /\ pc' = "bilateral"
    /\ UNCHANGED Rest

\* Bilateral reading img instead of img_clahe.
BilateralOfImg ==
    /\ pc = "bilateral"
    /\ LET img_bilateral == bilateralFilter(frame.img)
       IN  /\ frame' = frame @@ [img_bilateral |-> img_bilateral]
           /\ calls' = Call("bilateralFilter", frame.img, img_bilateral)
    /\ pc' = "denoise"
    /\ UNCHANGED <<stdout, sample_files, file, log, outputs, ret, loaded, result>>

\* main.py:66
Bilateral ==
    /\ pc = "bilateral"
    /\ LET img_bilateral == bilateralFilter(frame.img_clahe)
       IN  /\ frame' = frame @@ [img_bilateral |-> img_bilateral]
           /\ calls' = Call("bilateralFilter", frame.img_clahe, img_bilateral)
    /\ pc' = "denoise"
    /\ UNCHANGED Rest

\* main.py:69-75
Denoise ==
    /\ pc = "denoise"
    /\ LET denoise_strength == DenoiseStrength(frame.noise_level)
           img_denoised     == fastNlMeansDenoising(frame.img_bilateral, denoise_strength)
       IN  /\ frame' = frame @@ [denoise_strength |-> denoise_strength,
                                 img_denoised     |-> img_denoised]
           /\ calls' = Call("fastNlMeansDenoising", frame.img_bilateral, img_denoised)
    /\ pc' = "sharpen"
    /\ UNCHANGED Rest

\* main.py:78-88.  One pixel of the denoised image and the pixel of its
\* blur at the same place are followed through the blend (probe).
Sharpen ==
    /\ pc = "sharpen"
    /\ LET strength      == Strength(frame.sharpness)
           gaussian      == GaussianBlur(frame.img_denoised)
           img_sharpened == addWeighted(frame.img_denoised, Alpha(strength), gaussian,
                                        Beta(strength), Gamma)
       IN  /\ \E src1 \in PixelSamples, src2 \in PixelSamples :
                \E dst \in AddWeighted(src1, Alpha(strength), src2, Beta(strength), Gamma) :
                   frame' = frame @@ [strength      |-> strength,
                                      gaussian      |-> gaussian,
                                      img_sharpened |-> img_sharpened,
                                      probe |-> [src1 |-> src1, src2 |-> src2, dst |-> dst]]
           /\ calls' = Call("sharpen", frame.img_denoised, img_sharpened)
    /\ pc' = "return"
    /\ UNCHANGED Rest

\* main.py:90
Return ==
    /\ pc = "return"
    /\ result' = frame.img_sharpened
    /\ frame' = NoFrame
    /\ pc' = "result"
    /\ UNCHANGED <<stdout, sample_files, file, log, outputs, ret, loaded, calls>>

\* A call inside the try block raises (main.py:35-90): control goes to the
\* except clause.  At main.py:36 only cvtColor can raise.
Raise ==
    /\ pc \in TryPcs
    /\ pc = "gray" => frame.img.ndim = 3
    /\ pc' = "except"
    /\ UNCHANGED <<frame, calls, Rest>>

\* Except returning the image as far as it got instead of None.
ExceptReturnsImg ==
    /\ pc = "except"
    /\ log' = Say("Adaptive preprocessing failed")
    /\ result' = frame.img
    /\ frame' = NoFrame
    /\ pc' = "result"
    /\ UNCHANGED <<stdout, sample_files, file, outputs, ret, loaded, calls>>

\* main.py:92-94
Except ==
    /\ pc = "except"
    /\ log' = Say("Adaptive preprocessing failed")
    /\ result' = NoImage
    /\ frame' = NoFrame
    /\ pc' = "result"
    /\ UNCHANGED <<stdout, sample_files, file, outputs, ret, loaded, calls>>

----------------------------------------------------------------------------
(* Specifications                                                          *)

\* The batch run of __main__.
Next ==
    \/ ListOk \/ ListFails
    \/ CallProcessFile \/ CallProcessFilePrintRaises
    \/ FileNotFound \/ FileNotFoundPrintRaises
    \/ LoadOk \/ LoadFails \/ LoadFailsPrintRaises \/ CallPreprocessing
    \/ ToGray \/ Clamp \/ Estimate \/ Clahe \/ Bilateral \/ Denoise \/ Sharpen
    \/ Return \/ Raise \/ Except
    \/ ResultIsNone \/ SaveOk \/ SaveReturnsFalse \/ SavedPrintRaises \/ SaveRaises
    \/ Finish

Spec == Init /\ [][Next]_vars

\* One call of adaptive_preprocessing, on any image of Images.
InitPipeline ==
    /\ pc = "gray"
    /\ stdout = "utf-8"
    /\ sample_files = <<[root |-> 1]>>
    /\ file = 1
    /\ log = << >>
    /\ outputs = << >>
    /\ ret = [f \in Files |-> "NotCalled"]
    /\ loaded \in Images
    /\ result = NoImage
    /\ frame = [img |-> loaded]
    /\ calls = << >>

NextPipeline ==
    \/ ToGray \/ Clamp \/ Estimate \/ Clahe \/ Bilateral \/ Denoise \/ Sharpen
    \/ Return \/ Raise \/ Except

PipelineSpec == InitPipeline /\ [][NextPipeline]_vars

\* The metric values tried by PolicySpec: the contrast in hundredths, the
\* sharpness (with the float64s next to 20.0 and 300.0), the noise level in
\* units of 1/60000 (8.3333..., 15, 25 and 127.5 and their neighbours).
ContrastSamples == {0, 3999, 4000, 4001, 8000, 12000, 12001, 25500, 100000}
SharpnessSamples ==
    {Real(0, 0, 1, 0), Real(19, 99, 100, 0), Real(20, 0, 1, -1), Real(20, 0, 1, 0),
     Real(79, 99, 100, 0), Real(80, 0, 1, 0), Real(300, 0, 1, 0), Real(300, 0, 1, 1),
     Real(300, 1, 100, 0), Real(1000, 0, 1, 0)}
NoiseSamples == {0, 499999, 500000, 500099, 500100, 900000, 1499999, 1500000, 7650000}

\* main.py:60-90 from any metric values: the state after line 58 with the
\* three metrics drawn from the samples, for an image whose pixels are not
\* looked at.
InitPolicy ==
    /\ pc = "clahe"
    /\ stdout = "utf-8"
    /\ sample_files = <<[root |-> 1]>>
    /\ file = 1
    /\ log = << >>
    /\ outputs = << >>
    /\ ret = [f \in Files |-> "NotCalled"]
    /\ loaded = [h |-> patch_size, w |-> patch_size, ndim |-> 2, kind |-> "unknown",
                 ops |-> << >>]
    /\ result = NoImage
    /\ \E c \in ContrastSamples, s \in SharpnessSamples, n \in NoiseSamples :
          frame = [img |-> clip(loaded), contrast |-> c, sharpness |-> s,
                   noise_level |-> n]
    /\ calls = Append(<< >>, [stage |-> "clip", input |-> loaded, output |-> clip(loaded)])

NextPolicy == Clahe \/ Bilateral \/ Denoise \/ Sharpen \/ Return

PolicySpec == InitPolicy /\ [][NextPolicy]_vars

\* One call of adaptive_preprocessing with its noise level either computed
\* from an image of Images or drawn from the samples.
InitDenoise == InitPipeline \/ InitPolicy

DenoiseSpec == InitDenoise /\ [][NextPipeline]_vars

----------------------------------------------------------------------------
(* What the claims speak of                                                *)

\* The messages printed for file f, in order.
RECURSIVE MsgsFrom(_, _)
MsgsFrom(f, k) ==
    IF k > Len(log) THEN << >>
    ELSE (IF log[k].file = f THEN <<log[k].msg>> ELSE << >>) \o MsgsFrom(f, k + 1)

Msgs(f) == MsgsFrom(f, 1)

Said(f, msg) == \E k \in 1..Len(log) : log[k].file = f /\ log[k].msg = msg

Times(f, msg) == Cardinality({k \in 1..Len(log) : log[k].file = f /\ log[k].msg = msg})

\* The files of the list.
Listed == DOMAIN sample_files

\* The program has ended.
Over == pc \in {"done", "uncaught"}

\* There is an output image of file f.
HasOutput(f) == \E p \in DOMAIN outputs : outputs[p] = f

\* f was decoded and preprocessed without failure.
Preprocessed(f) ==
    /\ ret[f] = "None"
    /\ ~Said(f, "Error loading")
    /\ ~Said(f, "Adaptive preprocessing failed")

\* The five stages, in order.
Chain == <<"clip", "CLAHE", "bilateralFilter", "fastNlMeansDenoising", "sharpen">>

\* The stage calls made for the image in hand, the grayscale conversion
\* (stage 0) left out.
StageCalls ==
    IF calls # << >> /\ calls[1].stage = "cvtColor" THEN Tail(calls) ELSE calls

IsPrefix(s, t) == Len(s) <= Len(t) /\ \A k \in 1..Len(s) : s[k] = t[k]

Small(im) == im.h < patch_size \/ im.w < patch_size

\* Every pixel of the image has the value of its first pixel.
Uniform(im) ==
    \A r \in 0..(im.h - 1), c \in 0..(im.w - 1) : Pattern(im, r, c) = Pattern(im, 0, 0)

LastOp(im) == im.ops[Len(im.ops)]

----------------------------------------------------------------------------
(* The claims                                                              *)

\* C1.  The sharpening strength is one of 2.0, 1.7, 1.1, 0.7, chosen by the
\* sharpness: below 20 gives 2.0; from 20 up to but not 80 gives 1.7; from
\* 80 to 300, both included, gives 1.1; above 300 gives 0.7.  So 19.99,
\* 20.0, 79.99, 80.0, 300.0, 300.01 give 2.0, 1.7, 1.7, 1.1, 1.1, 0.7.
C1_StrengthBySharpness ==
    Bound("strength") =>
        LET s == frame.sharpness
            t == frame.strength
            Is(whole, hundredths) ==
                s.whole = whole /\ s.num * 100 = hundredths * s.den /\ s.ulp = 0
        IN  /\ t \in {20, 17, 11, 7}
            /\ Less(s, 20) => t = 20
            /\ (~Less(s, 20) /\ Less(s, 80)) => t = 17
            /\ (~Less(s, 80) /\ ~Greater(s, 300)) => t = 11
            /\ Greater(s, 300) => t = 7
            /\ Is(19, 99) => t = 20
            /\ Is(20, 0) => t = 17
            /\ Is(79, 99) => t = 17
            /\ Is(80, 0) => t = 11
            /\ Is(300, 0) => t = 11
            /\ Is(300, 1) => t = 7

\* A sharpness of exactly 300.0 has been given the strength 1.1.
C1_Witness ==
    Bound("strength") /\ frame.sharpness = Real(300, 0, 1, 0) /\ frame.strength = 11

\* C2.  The clip limit handed to CLAHE is contrast / 40 cut to [1.0, 3.0]:
\* contrast / 40 itself when that is within [1.0, 3.0], 1.0 when it is
\* below (contrast 0), 3.0 when it is above (contrast 1000).
C2_ClaheClipClamped ==
    Bound("clahe_clip") =>
        LET c == frame.contrast
            k == frame.clahe_clip
        IN  /\ 4000 <= k /\ k <= 12000
            /\ (4000 <= c /\ c <= 12000) => k = c
            /\ c < 4000 => k = 4000
            /\ c > 12000 => k = 12000
            /\ c = 0 => k = 4000
            /\ c = 100000 => k = 12000
            /\ LastOp(frame.img_clahe).fn = "CLAHE"
            /\ LastOp(frame.img_clahe).clipLimit = k

\* A contrast of 1000 has been given the clip limit 3.0.
C2_Witness ==
    Bound("clahe_clip") /\ frame.contrast = 100000 /\ frame.clahe_clip = 12000

\* C3.  The strength handed to the non-local-means denoising is
\* noise_level * 0.6 cut to [5.0, 15.0] (to the thousandth); and for a
\* constant image of at least 40 x 40 each of the eight patches has
\* standard deviation 0 and the noise level is 0 (as soon as they are
\* computed), so that the strength is 5.0.
C3_DenoiseStrengthClamped ==
    /\ Bound("denoise_strength") =>
          LET n == frame.noise_level
              d == frame.denoise_strength
          IN  /\ 5000 <= d /\ d <= 15000
              /\ (500000 <= n /\ n <= 1500000) => (100 * d <= n /\ n < 100 * d + 100)
              /\ n < 500000 => d = 5000
              /\ n > 1500000 => d = 15000
              /\ n = 0 => d = 5000
              /\ LastOp(frame.img_denoised).fn = "fastNlMeansDenoising"
              /\ LastOp(frame.img_denoised).h = d
    /\ (pc = "clahe" /\ Bound("stds") /\ ~Small(loaded) /\ Uniform(loaded)) =>
          /\ Len(frame.stds) = 8
          /\ \A k \in 1..8 : frame.stds[k] = 0
          /\ frame.noise_level = 0

\* A constant image of value 128, at least 40 x 40, has been denoised with
\* strength 5.0.
C3_Witness ==
    /\ Bound("denoise_strength")
    /\ Bound("stds")
    /\ loaded.kind = "flat"
    /\ ~Small(loaded)
    /\ frame.stds = <<0, 0, 0, 0, 0, 0, 0, 0>>
    /\ frame.denoise_strength = 5000

\* C4.  For an image with height < 40 or width < 40 metric estimation fails
\* with a DimensionError: no noise level is computed, no patch is asked for
\* or read outside the image or cut short, and no filter stage is run
\* (stated as the claim has it; the code does not behave so).
C4_SmallImageRefused ==
    (IsImage(loaded) /\ Small(loaded)) =>
        /\ ~Bound("noise_level")
        /\ ~Bound("patches")
        /\ \A k \in 1..Len(calls) :
              calls[k].stage \notin {"CLAHE", "bilateralFilter", "fastNlMeansDenoising",
                                     "sharpen"}
        /\ ~IsImage(result)

\* C5.  When the program has ended, every file of the list has been
\* attempted by process_file, every file that was decoded and preprocessed
\* has its output image, and a file that could not be decoded has exactly
\* one decode failure reported and no output (stated as the claim has it;
\* the code does not behave so).
C5_BatchNeverAborted ==
    Over =>
        \A f \in Listed :
            /\ Said(f, "Processing")
            /\ Preprocessed(f) => HasOutput(f)
            /\ Said(f, "Error loading") =>
                  Times(f, "Error loading") = 1 /\ ~HasOutput(f)

\* C6.  When a call of the filter chain fails for an image, no later stage
\* is run for it (the stage calls made are a proper prefix of the chain and
\* stay so), the failure is reported, no output is written for it, the
\* loop goes on to the next file, and nothing about another file is changed
\* on its account: a step taken for a file leaves alone how process_file
\* was left for the others and what was printed for them, and the output
\* images are changed only by a step that saves an image whose
\* preprocessing did not fail.
C6_StageFailureStaysLocal ==
    [][ /\ (pc = "except" \/ (pc = "result" /\ ~IsImage(result))) =>
              /\ IsPrefix([k \in 1..Len(StageCalls) |-> StageCalls[k].stage], Chain)
              /\ Len(StageCalls) < Len(Chain)
              /\ calls' = calls
              /\ outputs' = outputs
        /\ pc = "except" =>
              /\ pc' = "result"
              /\ ~IsImage(result')
              /\ log' = Append(log, [file |-> file, msg |-> "Adaptive preprocessing failed"])
        /\ (pc = "result" /\ ~IsImage(result)) =>
              /\ pc' = "main"
              /\ file' = file + 1
              /\ ret'[file] = "None"
        /\ \A f \in Files :
              Said(f, "Adaptive preprocessing failed")' => ~HasOutput(f)'
        /\ \A f \in Files \ {file} :
              /\ ret'[f] = ret[f]
              /\ Msgs(f)' = Msgs(f)
        /\ outputs' # outputs =>
              /\ pc = "result"
              /\ IsImage(result)
              /\ ~Said(file, "Adaptive preprocessing failed")
      ]_vars

\* A file whose preprocessing failed has been passed, and a later file has
\* its output.
C6_Witness ==
    \E f \in Listed, g \in Listed :
       /\ f < g
       /\ Said(f, "Adaptive preprocessing failed")
       /\ ~HasOutput(f)
       /\ HasOutput(g)

\* C7.  For an image processed successfully the five stages have run once
\* each, in the order range clamp, CLAHE, bilateral filter, non-local-means
\* denoising, sharpening; each stage was given the output of the one before
\* it; the blur is a blur of the denoised image; and the image returned is
\* the sharpening stage's output.
C7_StagesInOrder ==
    (pc = "result" /\ IsImage(result)) =>
        /\ [k \in 1..Len(StageCalls) |-> StageCalls[k].stage] = Chain
        /\ StageCalls[1].input.ops \in {<< >>, <<[fn |-> "cvtColor"]>>}
        /\ \A k \in 2..Len(StageCalls) : StageCalls[k].input = StageCalls[k - 1].output
        /\ result = StageCalls[Len(Chain)].output
        /\ LET names == OpNames(result)
               own   == IF names[1] = "cvtColor" THEN Tail(names) ELSE names
           IN  own = <<"clip", "CLAHE", "bilateralFilter", "fastNlMeansDenoising",
                       "addWeighted">>
        /\ LastOp(result).src2 =
              Append(StageCalls[Len(Chain)].input.ops,
                     [fn |-> "GaussianBlur", ksize |-> <<5, 5>>, sigmaX |-> 12])

\* A 3-channel image has been through the whole chain.
C7_Witness ==
    /\ pc = "result"
    /\ IsImage(result)
    /\ Len(calls) = Len(Chain) + 1

\* C8.  What process_file returns tells the outcomes apart (stated as the
\* claim has it; the code does not behave so): two files for which
\* different things happened -- the image was written, or decoding failed,
\* or preprocessing failed, or the write failed -- got different results.
C8_TypedResult ==
    \A f \in Listed, g \in Listed :
        (ret[f] # "NotCalled" /\ ret[g] # "NotCalled" /\ Msgs(f) # Msgs(g))
            => ret[f] # ret[g]

\* C9, as claimed.  The output pixel of the sharpening stage is exactly
\* denoised * s + blurred * (1 - s).
C9_AsClaimed ==
    Bound("probe") =>
        LET s == frame.strength
            p == frame.probe
        IN  10 * p.dst = p.src1 * s + p.src2 * (10 - s)

\* C9, amended.  The weight of the denoised image is s, the weight of the
\* blurred image is 1 - s, they sum to 1 and no offset is added; the output
\* pixel is denoised * s + blurred * (1 - s) rounded to a nearest integer
\* and cut to 0..255; where the denoised and the blurred pixel are equal
\* the output pixel equals them.
C9_BlendWeights ==
    Bound("probe") =>
        LET s  == frame.strength
            p  == frame.probe
            op == LastOp(frame.img_sharpened)
            t  == p.src1 * s + p.src2 * (10 - s)
        IN  /\ op.fn = "addWeighted"
            /\ op.alpha = s
            /\ op.beta = 10 - s
            /\ op.alpha + op.beta = 10
            /\ op.gamma = 0
            /\ p.dst \in 0..255
            /\ IF t >= 2550 THEN p.dst = 255
               ELSE IF t <= 0 THEN p.dst = 0
               ELSE 10 * p.dst - t \in -5..5
            /\ p.src1 = p.src2 => p.dst = p.src1

\* With strength 1.7, equal denoised and blurred pixels of 128 gave 128.
C9_Witness ==
    /\ Bound("probe")
    /\ frame.strength = 17
    /\ frame.probe = [src1 |-> 128, src2 |-> 128, dst |-> 128]

\* C10.  For an image of at least 40 x 40 the noise is estimated from
\* exactly eight patches: the four corners, the middles of the left and
\* right edges, the middles of the top and bottom edges; each is asked for
\* within the image, from a non-negative start, and each is read whole,
\* 40 rows by 40 columns.
C10_EightWholePatches ==
    (Bound("patches") /\ frame.h >= patch_size /\ frame.w >= patch_size) =>
        LET h  == frame.h
            w  == frame.w
            ps == frame.patches
            at == [k \in 1..Len(ps) |-> <<ps[k].rows.from, ps[k].cols.from>>]
        IN  /\ Len(ps) = 8
            /\ \A k \in 1..Len(ps) :
                  /\ 0 <= ps[k].rows.from /\ ps[k].rows.to <= h
                  /\ 0 <= ps[k].cols.from /\ ps[k].cols.to <= w
                  /\ ps[k].rows.to - ps[k].rows.from = 40
                  /\ ps[k].cols.to - ps[k].cols.from = 40
            /\ at = << <<0, 0>>, <<0, w - 40>>, <<h - 40, 0>>, <<h - 40, w - 40>>,
                       <<h \div 2 - 20, 0>>, <<h \div 2 - 20, w - 40>>,
                       <<0, w \div 2 - 20>>, <<h - 40, w \div 2 - 20>> >>
            /\ \A k \in 1..Len(ps) :
                  LET q == PatchRequests(h, w)[k]
                  IN  /\ 0 <= q.r0 /\ q.r1 <= h /\ 0 <= q.c0 /\ q.c1 <= w
                      /\ ps[k] = [rows |-> [from |-> q.r0, to |-> q.r1],
                                  cols |-> [from |-> q.c0, to |-> q.c1]]

\* The patches of an image of odd height and of width exactly 40 have been
\* taken.
C10_Witness ==
    Bound("patches") /\ frame.h = 41 /\ frame.w = 40
====
